---- MODULE Spec2Model ----
(***************************************************************************)
(* The update dispatcher of pyrogram (src/pyrogram/dispatcher.py): the     *)
(* handler registry, the per-worker exclusion locks, the worker loop with  *)
(* its error routing, and start()/stop().                                  *)
(*                                                                         *)
(* Everything runs on one asyncio event loop, so a step of the model is    *)
(* what one coroutine does between two suspension points.  A mutation      *)
(* task (the closure fn of add_handler / remove_handler /                  *)
(* remove_error_handler) runs from one blocked lock.acquire() to the next, *)
(* and from its last acquire through its change and its releases without  *)
(* suspending.  A worker may suspend at queue.get(), in the parser, at its *)
(* lock and in every callback; the visit of one handler (check, callback,  *)
(* error handlers) is one step, which is sound because the worker holds    *)
(* its lock all the way through it.                                        *)
(*                                                                         *)
(* Exceptions are instances of Exception (what lines 271, 295 and 332      *)
(* catch); the two propagation signals are modelled apart.                 *)
(***************************************************************************)
EXTENDS Integers, Sequences, FiniteSets, TLC

VARIABLES
    no_updates,                \* client.no_updates
    workers,                   \* client.workers
    locks_list,                \* self.locks_list: one asyncio.Lock per worker ever started
    handler_worker_tasks,      \* self.handler_worker_tasks: ids of the worker tasks
    updates_queue,             \* self.updates_queue (FIFO); "None" is the sentinel
    groups,                    \* self.groups: OrderedDict as a sequence of (key, handlers)
    error_handlers,            \* self.error_handlers
    error_handler_coros,       \* self.error_handler_coros
    global_error_handler,      \* self.global_error_handler ("None" when unset)
    global_error_handler_coro, \* self.global_error_handler_coro ("None", "True", "False")
    worker,                    \* the handler_worker coroutines, worker[i] uses locks_list[i]
    fn_tasks,                  \* the mutation tasks created by loop.create_task(fn())
    last_fn,                   \* the operation and the outcome of the task that ended last
    calls,                     \* number of start() calls, stop() calls, packets put so far
    stop_waiting               \* number of stop() coroutines suspended at "await i"

vars == <<no_updates, workers, locks_list, handler_worker_tasks, updates_queue, groups,
          error_handlers, error_handler_coros, global_error_handler,
          global_error_handler_coro, worker, fn_tasks, last_fn, calls, stop_waiting>>

registry == <<groups, error_handlers, error_handler_coros, global_error_handler,
              global_error_handler_coro>>

config == <<no_updates, workers>>

----------------------------------------------------------------------------
(* Handler objects.  A handler is named by an identifier; its class, its   *)
(* callback's kind and (for an ErrorHandler) its errors attribute are      *)
(* fixed at construction.                                                  *)

Handlers ==
    {"msgA", "msgB", "editA", "rawA", "errLookup", "errKey", "errEmpty", "errClass",
     "globA", "globB"}

HandlerClass(h) ==
    CASE h \in {"msgA", "msgB"} -> "MessageHandler"
      [] h = "editA" -> "EditedMessageHandler"
      [] h = "rawA" -> "RawUpdateHandler"
      [] OTHER -> "ErrorHandler"

\* inspect.iscoroutinefunction(handler.callback)
IsCoroutineFunction(h) == h \in {"msgA", "rawA", "errLookup", "errClass", "globA"}

\* The flag add_handler records: "True" or "False" ("None" is the unset global flag)
CoroFlag(h) == IF IsCoroutineFunction(h) THEN "True" ELSE "False"

\* ErrorHandler.__init__: errors is None, one exception class, or a tuple of classes
\* (a list is turned into a tuple, the empty list into the empty tuple).
Errors(h) ==
    CASE h = "errLookup" -> [form |-> "tuple", kinds |-> {"LookupError"}]
      [] h = "errKey" -> [form |-> "tuple", kinds |-> {"KeyError"}]
      [] h = "errEmpty" -> [form |-> "tuple", kinds |-> {}]
      [] h = "errClass" -> [form |-> "class", kinds |-> {"KeyError"}]
      [] OTHER -> [form |-> "None", kinds |-> {}]

\* The exception classes a callback raises here; KeyError is a subclass of LookupError.
Kinds == {"LookupError", "KeyError"}

Superclasses(k) == IF k = "KeyError" THEN {"KeyError", "LookupError"} ELSE {k}

\* isinstance(e, error_handler.errors)
IsInstance(k, errs) == Superclasses(k) \cap errs.kinds # {}

\* self.update_parsers: raw update type -> the handler class its parser returns
Tags == {"UpdateNewMessage", "UpdateEditMessage", "UpdateUnknown"}

HasParser(tag) == tag \in {"UpdateNewMessage", "UpdateEditMessage"}

update_parsers(tag) ==
    CASE tag = "UpdateNewMessage" -> "MessageHandler"
      [] tag = "UpdateEditMessage" -> "EditedMessageHandler"
      [] OTHER -> "NoneType"

----------------------------------------------------------------------------
(* Sequences.                                                              *)

Range(s) == {s[i] : i \in 1..Len(s)}

\* list.index: the first position of x (0 when absent, where Python raises ValueError)
IndexOf(s, x) ==
    IF x \in Range(s) THEN CHOOSE i \in 1..Len(s) : s[i] = x /\ \A j \in 1..(i - 1) : s[j] # x
    ELSE 0

\* list.pop(index)
Pop(s, i) == [j \in 1..(Len(s) - 1) |-> IF j < i THEN s[j] ELSE s[j + 1]]

----------------------------------------------------------------------------
(* asyncio.Lock: owner 0 is unlocked, a worker i owns as i, the mutation   *)
(* task t as -t.  Waiters are served first come, first served: release()   *)
(* wakes the first waiter, and nobody can take the lock before it.         *)

FreeLock == [owner |-> 0, waiters |-> <<>>]

IsFree(lock) == lock.owner = 0 /\ lock.waiters = <<>>

\* Mutant: release() frees the lock and wakes nobody.
LockReleaseNoHandover(lock) == [owner |-> 0, waiters |-> lock.waiters]

LockRelease(lock) ==
    IF lock.waiters = <<>> THEN [owner |-> 0, waiters |-> <<>>]
    ELSE [owner |-> Head(lock.waiters), waiters |-> Tail(lock.waiters)]

----------------------------------------------------------------------------
(* The registry: add_handler, remove_handler, remove_error_handler.  Each  *)
(* operator is the body of the try block of the closure fn; its result is  *)
(* "done" or the exception the block raises.                               *)

GroupKeys(gs) == {gs[i].key : i \in 1..Len(gs)}

\* self.groups[group]
GroupIndex(gs, g) == CHOOSE i \in 1..Len(gs) : gs[i].key = g

RECURSIVE InsertItem(_, _)
InsertItem(sorted, item) ==
    IF sorted = <<>> THEN <<item>>
    ELSE IF item.key < Head(sorted).key THEN <<item>> \o sorted
    ELSE <<Head(sorted)>> \o InsertItem(Tail(sorted), item)

\* OrderedDict(sorted(self.groups.items()))
RECURSIVE SortedItems(_)
SortedItems(items) ==
    IF items = <<>> THEN <<>>
    ELSE InsertItem(SortedItems(SubSeq(items, 1, Len(items) - 1)), items[Len(items)])

\* Mutant: a new group goes to the end of the dictionary, which is not sorted again.
WithGroupAppended(gs, g) ==
    IF g \in GroupKeys(gs) THEN gs
    ELSE Append(gs, [key |-> g, hs |-> <<>>])

\* if group not in self.groups: self.groups[group] = []; self.groups = OrderedDict(sorted(...))
WithGroup(gs, g) ==
    IF g \in GroupKeys(gs) THEN gs
    ELSE SortedItems(Append(gs, [key |-> g, hs |-> <<>>]))

\* self.groups[group].append(handler)
AppendHandler(gs, g, h) == [gs EXCEPT ![GroupIndex(gs, g)].hs = Append(@, h)]

Registry(gs, ehs, coros, geh, gcoro, result) ==
    [groups |-> gs, error_handlers |-> ehs, error_handler_coros |-> coros,
     global_error_handler |-> geh, global_error_handler_coro |-> gcoro, result |-> result]

Unchanged(result) ==
    Registry(groups, error_handlers, error_handler_coros, global_error_handler,
             global_error_handler_coro, result)

\* Mutant: an ErrorHandler with an empty tuple of errors becomes the global one too.
ApplyAddHandlerEmptyGlobal(h, g) ==
    LET gs == AppendHandler(WithGroup(groups, g), g, h)
    IN  IF HandlerClass(h) = "ErrorHandler"
        THEN IF Errors(h).kinds = {}
             THEN Registry(gs, error_handlers, error_handler_coros, h, CoroFlag(h), "done")
             ELSE Registry(gs, Append(error_handlers, h),
                           Append(error_handler_coros, CoroFlag(h)),
                           global_error_handler, global_error_handler_coro, "done")
        ELSE Registry(gs, error_handlers, error_handler_coros, global_error_handler,
                      global_error_handler_coro, "done")

\* add_handler.fn, lines 180-192
ApplyAddHandler(h, g) ==
    LET gs == AppendHandler(WithGroup(groups, g), g, h)
    IN  IF HandlerClass(h) = "ErrorHandler"
        THEN IF Errors(h).form = "None"
             THEN Registry(gs, error_handlers, error_handler_coros, h, CoroFlag(h), "done")
             ELSE Registry(gs, Append(error_handlers, h),
                           Append(error_handler_coros, CoroFlag(h)),
                           global_error_handler, global_error_handler_coro, "done")
        ELSE Registry(gs, error_handlers, error_handler_coros, global_error_handler,
                      global_error_handler_coro, "done")

\* list.remove(x): the list without the first occurrence of x
RemoveFirst(s, x) == Pop(s, IndexOf(s, x))

\* As ApplyRemoveHandler, but a missing group or handler passes silently.
ApplyRemoveHandlerSilent(h, g) ==
    IF g \notin GroupKeys(groups) THEN Unchanged("done")
    ELSE IF h \notin Range(groups[GroupIndex(groups, g)].hs) THEN Unchanged("done")
    ELSE Registry([groups EXCEPT ![GroupIndex(groups, g)].hs = RemoveFirst(@, h)],
                  error_handlers, error_handler_coros, global_error_handler,
                  global_error_handler_coro, "done")

\* remove_handler.fn, lines 235-238
ApplyRemoveHandler(h, g) ==
    IF g \notin GroupKeys(groups) THEN Unchanged("ValueError")
    ELSE IF h \notin Range(groups[GroupIndex(groups, g)].hs) THEN Unchanged("ValueError")
    ELSE Registry([groups EXCEPT ![GroupIndex(groups, g)].hs = RemoveFirst(@, h)],
                  error_handlers, error_handler_coros, global_error_handler,
                  global_error_handler_coro, "done")

\* "error in err.errors" (line 216): membership in the tuple; a bare class is not iterable
FirstWithError(ehs, k) ==
    IF \E i \in 1..Len(ehs) : Errors(ehs[i]).form = "class" \/ k \in Errors(ehs[i]).kinds
    THEN CHOOSE i \in 1..Len(ehs) :
            /\ Errors(ehs[i]).form = "class" \/ k \in Errors(ehs[i]).kinds
            /\ \A j \in 1..(i - 1) : Errors(ehs[j]).form # "class" /\ k \notin Errors(ehs[j]).kinds
    ELSE 0

\* remove_error_handler.fn, lines 210-221.  Lines 213 and 218 name attributes the
\* dispatcher does not have (error_handlers_coros, error_handlers_coro): the pop of
\* self.error_handlers has happened when they raise AttributeError.
ApplyRemoveErrorHandler(h, k) ==
    IF h # "None"
    THEN IF h \notin Range(error_handlers) THEN Unchanged("ValueError")
         ELSE Registry(groups, Pop(error_handlers, IndexOf(error_handlers, h)),
                       error_handler_coros, global_error_handler, global_error_handler_coro,
                       "AttributeError")
    ELSE IF k # "None"
    THEN LET i == FirstWithError(error_handlers, k)
         IN  IF i = 0 THEN Unchanged("done")
             ELSE IF Errors(error_handlers[i]).form = "class" THEN Unchanged("TypeError")
             ELSE Registry(groups, Pop(error_handlers, i), error_handler_coros,
                           global_error_handler, global_error_handler_coro, "AttributeError")
    ELSE Registry(groups, error_handlers, error_handler_coros, "None", "None", "done")

Apply(f) ==
    CASE f.op = "add_handler" -> ApplyAddHandler(f.handler, f.group)
      [] f.op = "remove_handler" -> ApplyRemoveHandler(f.handler, f.group)
      [] OTHER -> ApplyRemoveErrorHandler(f.handler, f.error)

----------------------------------------------------------------------------
(* The mutation tasks.                                                     *)

NewFn(op, h, g, k) ==
    [st |-> "ready", op |-> op, handler |-> h, group |-> g, error |-> k, at |-> 0]

\* A task that has ended; how it ended ("done" or the exception) goes to last_fn.
Finished == [st |-> "finished", op |-> "None", handler |-> "None", group |-> 0,
             error |-> "None", at |-> 0]

FnActive(f) == f.st \in {"ready", "wait"}

\* As AcquireFrom, but a busy lock is passed over instead of waited for.
RECURSIVE AcquireFromNoWait(_, _, _)
AcquireFromNoWait(locks, p, id) ==
    IF p > Len(locks) THEN [locks |-> locks, at |-> 0, blocked |-> FALSE]
    ELSE IF IsFree(locks[p]) THEN AcquireFromNoWait([locks EXCEPT ![p].owner = id], p + 1, id)
    ELSE AcquireFromNoWait(locks, p + 1, id)

\* "for lock in self.locks_list: await lock.acquire()" from position p on: a free lock
\* is taken without suspending, at a busy one the task queues up and suspends.
RECURSIVE AcquireFrom(_, _, _)
AcquireFrom(locks, p, id) ==
    IF p > Len(locks) THEN [locks |-> locks, at |-> 0, blocked |-> FALSE]
    ELSE IF IsFree(locks[p]) THEN AcquireFrom([locks EXCEPT ![p].owner = id], p + 1, id)
    ELSE [locks |-> [locks EXCEPT ![p].waiters = Append(@, id)], at |-> p, blocked |-> TRUE]

\* "for lock in self.locks_list: lock.release()"
ReleaseAll(locks) == [i \in 1..Len(locks) |-> LockRelease(locks[i])]

\* self.loop.create_task(fn()) in add_handler / remove_handler / remove_error_handler.
\* The loop starts tasks in the order of their creation (call_soon is first in, first
\* out) and creating a task commutes with every step of the other coroutines, so a task
\* is created here when the tasks created before it have started.
Issue(f) ==
    /\ \A t \in 1..Len(fn_tasks) : fn_tasks[t].st # "ready"
    /\ fn_tasks' = Append(fn_tasks, f)
    /\ UNCHANGED <<config, locks_list, handler_worker_tasks, updates_queue, registry, worker,
                   last_fn, calls, stop_waiting>>

\* One run of fn: from its start, or from the lock it was waiting for and now owns.
FnRun(t) ==
    LET f == fn_tasks[t]
        acq == AcquireFrom(locks_list, IF f.st = "ready" THEN 1 ELSE f.at + 1, -t)
        reg == Apply(f)
    IN  /\ \/ f.st = "ready"
           \/ f.st = "wait" /\ locks_list[f.at].owner = -t
        /\ IF acq.blocked
           THEN /\ locks_list' = acq.locks
                /\ fn_tasks' = [fn_tasks EXCEPT ![t].st = "wait", ![t].at = acq.at]
                /\ UNCHANGED <<registry, last_fn>>
           ELSE /\ locks_list' = ReleaseAll(acq.locks)
                /\ fn_tasks' = [fn_tasks EXCEPT ![t] = Finished]
                /\ last_fn' = [op |-> f.op, result |-> reg.result]
                /\ groups' = reg.groups
                /\ error_handlers' = reg.error_handlers
                /\ error_handler_coros' = reg.error_handler_coros
                /\ global_error_handler' = reg.global_error_handler
                /\ global_error_handler_coro' = reg.global_error_handler_coro
        /\ UNCHANGED <<config, handler_worker_tasks, updates_queue, worker, calls, stop_waiting>>

----------------------------------------------------------------------------
(* The dispatch of one event, lines 262-333.  worker[i].calls is what the  *)
(* worker has called and logged for the event it last dequeued.            *)

Call(role, h, g, i, r, mode, args) ==
    [role |-> role, h |-> h, g |-> g, i |-> i, r |-> r, mode |-> mode, args |-> args]

\* log.error(e, exc_info=True) at lines 272, 327 and 333
Log(site, kind) == Call("log", site, 0, 0, kind, "None", "None")

IdleWorker == [pc |-> "get", update |-> "None", handler_type |-> "None", gi |-> 0, hi |-> 0,
               calls |-> <<>>]

\* The position of the two for loops (lines 263-264): the next handler at or after
\* (gi, hi), or gi = Len(gs) + 1 when the loops are over.
RECURSIVE Position(_, _, _)
Position(gs, gi, hi) ==
    IF gi > Len(gs) THEN [gi |-> Len(gs) + 1, hi |-> 1]
    ELSE IF hi > Len(gs[gi].hs) THEN Position(gs, gi + 1, 1)
    ELSE [gi |-> gi, hi |-> hi]

\* Mutant: without a parser every typed handler takes the update as one of its category.
SelectedUntyped(h, handler_type, check) ==
    IF HandlerClass(h) = handler_type \/ handler_type = "NoneType"
    THEN CASE check = "true" -> "parsed"
           [] check = "false" -> "None"
           [] OTHER -> "raise"
    ELSE IF HandlerClass(h) = "RawUpdateHandler" THEN "raw"
    ELSE "None"

\* Lines 267-279: "parsed" or "raw" when the handler is selected, "None" when it is
\* skipped, "raise" when its check raises.
Selected(h, handler_type, check) ==
    IF HandlerClass(h) = handler_type
    THEN CASE check = "true" -> "parsed"
           [] check = "false" -> "None"
           [] OTHER -> "raise"
    ELSE IF HandlerClass(h) = "RawUpdateHandler" THEN "raw"
    ELSE "None"

\* An error handler's callback called the way its flag says (lines 304-313, 316-325).
\* "await callback(...)" on a plain function runs it and then fails on awaiting its
\* result; run_in_executor on a coroutine function only creates the coroutine.
CallByFlag(h, flag, out) ==
    IF flag = "True"
    THEN IF IsCoroutineFunction(h) \/ out = "raise"
         THEN [r |-> IF out = "raise" THEN "Exception" ELSE "ok", escapes |-> out = "raise",
               mode |-> "await"]
         ELSE [r |-> "TypeError", escapes |-> TRUE, mode |-> "await"]
    ELSE IF IsCoroutineFunction(h)
         THEN [r |-> "notrun", escapes |-> FALSE, mode |-> "executor"]
         ELSE [r |-> IF out = "raise" THEN "Exception" ELSE "ok", escapes |-> out = "raise",
               mode |-> "executor"]

\* Mutant: the loop over the scoped error handlers ends at the first match.
RECURSIVE ScopedWalkFirstOnly(_, _, _, _, _, _)
ScopedWalkFirstOnly(ehs, coros, i, k, outs, args) ==
    IF i > Len(ehs) THEN [calls |-> <<>>, executed |-> FALSE, escaped |-> "None"]
    ELSE IF ~IsInstance(k, Errors(ehs[i]))
    THEN ScopedWalkFirstOnly(ehs, coros, i + 1, k, outs, args)
    ELSE LET c == CallByFlag(ehs[i], coros[IndexOf(ehs, ehs[i])], outs[i])
         IN  [calls |-> <<Call("scoped", ehs[i], 0, i, c.r, c.mode, args)>>,
              executed |-> TRUE, escaped |-> IF c.escapes THEN c.r ELSE "None"]

\* Lines 297-314: every scoped error handler the exception is an instance of, in order.
RECURSIVE ScopedWalk(_, _, _, _, _, _)
ScopedWalk(ehs, coros, i, k, outs, args) ==
    IF i > Len(ehs) THEN [calls |-> <<>>, executed |-> FALSE, escaped |-> "None"]
    ELSE IF ~IsInstance(k, Errors(ehs[i])) THEN ScopedWalk(ehs, coros, i + 1, k, outs, args)
    ELSE LET c == CallByFlag(ehs[i], coros[IndexOf(ehs, ehs[i])], outs[i])
             e == Call("scoped", ehs[i], 0, i, c.r, c.mode, args)
             rest == ScopedWalk(ehs, coros, i + 1, k, outs, args)
         IN  IF c.escapes THEN [calls |-> <<e>>, executed |-> TRUE, escaped |-> c.r]
             ELSE [calls |-> <<e>> \o rest.calls, executed |-> TRUE, escaped |-> rest.escaped]

\* Lines 315-327: the global error handler, or the log entry.
GlobalStep(executed, k, gout, args) ==
    IF ~executed \/ global_error_handler # "None"
    THEN IF global_error_handler = "None"
         THEN [calls |-> <<>>, escaped |-> "AttributeError"]
         ELSE LET c == CallByFlag(global_error_handler, global_error_handler_coro, gout)
              IN  [calls |-> <<Call("global", global_error_handler, 0, 0, c.r, c.mode, args)>>,
                   escaped |-> IF c.escapes THEN c.r ELSE "None"]
    ELSE [calls |-> <<Log("line327", k)>>, escaped |-> "None"]

\* Mutant: what a scoped error handler raises is caught and the routing goes on.
RouteGuarded(k, outs, gout, args) ==
    LET s == ScopedWalk(error_handlers, error_handler_coros, 1, k, outs, args)
        g == GlobalStep(s.executed, k, gout, args)
    IN  [calls |-> s.calls \o g.calls, escaped |-> g.escaped]

\* Lines 295-327: the calls made for exception k of a handler, and what escapes.
Route(k, outs, gout, args) ==
    LET s == ScopedWalk(error_handlers, error_handler_coros, 1, k, outs, args)
        g == GlobalStep(s.executed, k, gout, args)
    IN  IF s.escaped # "None" THEN [calls |-> s.calls, escaped |-> s.escaped]
        ELSE [calls |-> s.calls \o g.calls, escaped |-> g.escaped]

\* Mutant: a callback that returns does not end the scan of its group.
AfterCallbackNoBreak(out, escaped) ==
    CASE out = "ok" -> "continue"
      [] out = "cont" -> "continue"
      [] out = "stop" -> "exit"
      [] OTHER -> IF escaped = "None" THEN "break" ELSE "exit"

\* Mutant: StopPropagation only ends the scan of its group.
AfterCallbackStopBreaks(out, escaped) ==
    CASE out = "ok" -> "break"
      [] out = "cont" -> "continue"
      [] out = "stop" -> "break"
      [] OTHER -> IF escaped = "None" THEN "break" ELSE "exit"

\* What follows the callback's outcome (lines 291-329): "break", "continue" or "exit".
AfterCallback(out, escaped) ==
    CASE out = "ok" -> "break"
      [] out = "cont" -> "continue"
      [] out = "stop" -> "exit"
      [] OTHER -> IF escaped = "None" THEN "break" ELSE "exit"

\* Mutant: a check that raises ends the scan of its group.
VisitCheckBreaks(h, g, hi, handler_type, check, out, outs, gout) ==
    LET args == Selected(h, handler_type, check)
        mode == IF IsCoroutineFunction(h) THEN "await" ELSE "executor"
        call == Call("handler", h, g, hi, out, mode, args)
        route == IF out \in Kinds THEN Route(out, outs, gout, args)
                 ELSE [calls |-> <<>>, escaped |-> "None"]
    IN  CASE args = "None" -> [calls |-> <<>>, next |-> "continue"]
          [] args = "raise" -> [calls |-> <<Log("line272", "Exception")>>, next |-> "break"]
          [] OTHER ->
                [calls |-> <<call>> \o route.calls \o
                           (IF route.escaped # "None" THEN <<Log("line333", route.escaped)>>
                            ELSE <<>>),
                 next |-> AfterCallback(out, route.escaped)]

\* One pass of the inner loop body for handler h at (gi, hi): lines 265-329.
Visit(h, g, hi, handler_type, check, out, outs, gout) ==
    LET args == Selected(h, handler_type, check)
        mode == IF IsCoroutineFunction(h) THEN "await" ELSE "executor"
        call == Call("handler", h, g, hi, out, mode, args)
        route == IF out \in Kinds THEN Route(out, outs, gout, args)
                 ELSE [calls |-> <<>>, escaped |-> "None"]
    IN  CASE args = "None" -> [calls |-> <<>>, next |-> "continue"]
          [] args = "raise" -> [calls |-> <<Log("line272", "Exception")>>, next |-> "continue"]
          [] OTHER ->
                [calls |-> <<call>> \o route.calls \o
                           (IF route.escaped # "None" THEN <<Log("line333", route.escaped)>>
                            ELSE <<>>),
                 next |-> AfterCallback(out, route.escaped)]

----------------------------------------------------------------------------
(* handler_worker, lines 245-333, one action per suspension point.         *)

OtherVars == <<config, handler_worker_tasks, fn_tasks, last_fn, calls, stop_waiting>>

\* Mutant: the worker takes the packet that was put last.
WorkerGetLast(w) ==
    /\ worker[w].pc = "get"
    /\ updates_queue # <<>>
    /\ updates_queue' = SubSeq(updates_queue, 1, Len(updates_queue) - 1)
    /\ worker' = [worker EXCEPT ![w] =
            IF updates_queue[Len(updates_queue)] = "None" THEN [IdleWorker EXCEPT !.pc = "exited"]
            ELSE [IdleWorker EXCEPT !.pc = "parse",
                                    !.update = updates_queue[Len(updates_queue)]]]
    /\ UNCHANGED <<locks_list, registry, OtherVars>>

\* packet = await self.updates_queue.get(); if packet is None: break
WorkerGet(w) ==
    /\ worker[w].pc = "get"
    /\ updates_queue # <<>>
    /\ updates_queue' = Tail(updates_queue)
    /\ worker' = [worker EXCEPT ![w] =
            IF Head(updates_queue) = "None" THEN [IdleWorker EXCEPT !.pc = "exited"]
            ELSE [IdleWorker EXCEPT !.pc = "parse", !.update = Head(updates_queue)]]
    /\ UNCHANGED <<locks_list, registry, OtherVars>>

\* Mutant: an update whose parser raises is put back on the queue.
WorkerParseRequeues(w, ParseOuts) ==
    /\ worker[w].pc = "parse"
    /\ IF HasParser(worker[w].update)
       THEN \E o \in ParseOuts :
                /\ worker' = [worker EXCEPT ![w] =
                      IF o = "ok"
                      THEN [@ EXCEPT !.pc = "lock",
                                     !.handler_type = update_parsers(worker[w].update)]
                      ELSE [@ EXCEPT !.pc = "get", !.calls = <<Log("line333", "Exception")>>]]
                /\ updates_queue' = IF o = "ok" THEN updates_queue
                                    ELSE Append(updates_queue, worker[w].update)
       ELSE /\ worker' = [worker EXCEPT ![w].pc = "lock", ![w].handler_type = "NoneType"]
            /\ UNCHANGED updates_queue
    /\ UNCHANGED <<locks_list, registry, OtherVars>>

\* Lines 253-260: the parser of the update's type, if it has one; a raise goes to line 333.
WorkerParse(w, ParseOuts) ==
    /\ worker[w].pc = "parse"
    /\ IF HasParser(worker[w].update)
       THEN \E o \in ParseOuts :
                worker' = [worker EXCEPT ![w] =
                    IF o = "ok"
                    THEN [@ EXCEPT !.pc = "lock",
                                   !.handler_type = update_parsers(worker[w].update)]
                    ELSE [@ EXCEPT !.pc = "get", !.calls = <<Log("line333", "Exception")>>]]
       ELSE worker' = [worker EXCEPT ![w].pc = "lock", ![w].handler_type = "NoneType"]
    /\ UNCHANGED <<updates_queue, locks_list, registry, OtherVars>>

\* "async with lock" (line 262): the worker takes its own lock at once, or queues up
\* for it and resumes in lock.acquire() when a release has handed it the lock.
WorkerLock(w) ==
    /\ worker[w].pc \in {"lock", "lockwait"}
    /\ worker[w].pc = "lockwait" => locks_list[w].owner = w
    /\ IF worker[w].pc = "lockwait" \/ IsFree(locks_list[w])
       THEN /\ locks_list' = [locks_list EXCEPT ![w].owner = w]
            /\ worker' = [worker EXCEPT ![w].pc = "dispatch",
                                        ![w].gi = Position(groups, 1, 1).gi,
                                        ![w].hi = Position(groups, 1, 1).hi]
       ELSE /\ locks_list' = [locks_list EXCEPT ![w].waiters = Append(@, w)]
            /\ worker' = [worker EXCEPT ![w].pc = "lockwait"]
    /\ UNCHANGED <<updates_queue, registry, OtherVars>>

\* Mutant: an exception that reaches line 333 ends the worker.
AfterVisitDies(wk, v) ==
    IF v.next = "exit" /\ v.calls[Len(v.calls)].role = "log"
    THEN [wk EXCEPT !.pc = "exited", !.gi = 0, !.hi = 0, !.calls = @ \o v.calls]
    ELSE IF v.next = "exit"
    THEN [wk EXCEPT !.pc = "get", !.gi = 0, !.hi = 0, !.calls = @ \o v.calls]
    ELSE [wk EXCEPT !.gi = Position(groups, wk.gi, wk.hi + 1).gi,
                    !.hi = Position(groups, wk.gi, wk.hi + 1).hi, !.calls = @ \o v.calls]

\* Where the loops go after a visit; "exit" leaves the "async with" block.
AfterVisit(wk, v) ==
    LET pos == IF v.next = "break" THEN Position(groups, wk.gi + 1, 1)
               ELSE Position(groups, wk.gi, wk.hi + 1)
    IN  IF v.next = "exit"
        THEN [wk EXCEPT !.pc = "get", !.gi = 0, !.hi = 0, !.calls = @ \o v.calls]
        ELSE [wk EXCEPT !.gi = pos.gi, !.hi = pos.hi, !.calls = @ \o v.calls]

\* Mutant: the lock is kept when an exception or StopPropagation leaves the block.
LockAfterVisitKeeps(lock, v) == lock

\* The lock after a visit: __aexit__ releases it when the block is left.
LockAfterVisit(lock, v) == IF v.next = "exit" THEN LockRelease(lock) ELSE lock

\* One handler of the loops at lines 263-329.
WorkerVisit(w, CheckOuts, CallOuts, EhOuts) ==
    /\ worker[w].pc = "dispatch"
    /\ worker[w].gi <= Len(groups)
    /\ \E check \in CheckOuts, out \in CallOuts, gout \in EhOuts,
          outs \in [1..Len(error_handlers) -> EhOuts] :
            LET wk == worker[w]
                grp == groups[wk.gi]
                v == Visit(grp.hs[wk.hi], grp.key, wk.hi, wk.handler_type, check, out, outs,
                           gout)
            IN  /\ worker' = [worker EXCEPT ![w] = AfterVisit(wk, v)]
                /\ locks_list' = [locks_list EXCEPT ![w] = LockAfterVisit(@, v)]
    /\ UNCHANGED <<updates_queue, registry, OtherVars>>

\* The loops are over: the "async with" block ends and the worker loops (line 246).
WorkerDone(w) ==
    /\ worker[w].pc = "dispatch"
    /\ worker[w].gi > Len(groups)
    /\ worker' = [worker EXCEPT ![w].pc = "get", ![w].gi = 0, ![w].hi = 0]
    /\ locks_list' = [locks_list EXCEPT ![w] = LockRelease(@)]
    /\ UNCHANGED <<updates_queue, registry, OtherVars>>

----------------------------------------------------------------------------
(* start(), stop() and the transport's put.                                *)

Exited(w) == worker[w].pc = "exited"

\* start(), lines 152-158
Start ==
    /\ calls' = [calls EXCEPT !.start = @ + 1]
    /\ IF no_updates
       THEN UNCHANGED <<locks_list, worker, handler_worker_tasks>>
       ELSE /\ locks_list' = locks_list \o [i \in 1..workers |-> FreeLock]
            /\ worker' = worker \o [i \in 1..workers |-> IdleWorker]
            /\ handler_worker_tasks' =
                    handler_worker_tasks \o [i \in 1..workers |-> Len(worker) + i]
    /\ UNCHANGED <<config, updates_queue, registry, fn_tasks, last_fn, stop_waiting>>

\* Mutant: one sentinel too few.
SentinelsShort(n) == [i \in 1..(n - 1) |-> "None"]

\* for i in range(self.client.workers): self.updates_queue.put_nowait(None)
Sentinels(n) == [i \in 1..n |-> "None"]

\* Mutant: stop() does not await the worker tasks.
JoinedAtOnce == TRUE

\* "for i in self.handler_worker_tasks: await i" has nothing left to wait for
Joined == \A i \in 1..Len(handler_worker_tasks) : Exited(handler_worker_tasks[i])

\* Mutant: stop() does not look at client.no_updates.
StopAlways ==
    /\ calls' = [calls EXCEPT !.stop = @ + 1]
    /\ updates_queue' = updates_queue \o [i \in 1..workers |-> "None"]
    /\ IF \A i \in 1..Len(handler_worker_tasks) : worker[handler_worker_tasks[i]].pc = "exited"
       THEN /\ handler_worker_tasks' = <<>>
            /\ groups' = <<>>
            /\ UNCHANGED stop_waiting
       ELSE /\ stop_waiting' = stop_waiting + 1
            /\ UNCHANGED <<handler_worker_tasks, groups>>
    /\ UNCHANGED <<config, locks_list, worker, fn_tasks, last_fn, error_handlers,
                   error_handler_coros, global_error_handler, global_error_handler_coro>>

\* stop(), lines 163-171, up to its first suspension (or to its end when every task
\* has already finished).
Stop ==
    /\ calls' = [calls EXCEPT !.stop = @ + 1]
    /\ IF no_updates
       THEN UNCHANGED <<updates_queue, handler_worker_tasks, groups, stop_waiting>>
       ELSE /\ updates_queue' = updates_queue \o Sentinels(workers)
            /\ IF Joined
               THEN /\ handler_worker_tasks' = <<>>
                    /\ groups' = <<>>
                    /\ UNCHANGED stop_waiting
               ELSE /\ stop_waiting' = stop_waiting + 1
                    /\ UNCHANGED <<handler_worker_tasks, groups>>
    /\ UNCHANGED <<config, locks_list, worker, fn_tasks, last_fn, error_handlers,
                   error_handler_coros, global_error_handler, global_error_handler_coro>>

\* stop() resumes after its last await: lines 170-171
StopJoin ==
    /\ stop_waiting > 0
    /\ Joined
    /\ stop_waiting' = stop_waiting - 1
    /\ handler_worker_tasks' = <<>>
    /\ groups' = <<>>
    /\ UNCHANGED <<config, locks_list, worker, fn_tasks, last_fn, updates_queue, calls,
                   error_handlers, error_handler_coros, global_error_handler,
                   global_error_handler_coro>>

\* The transport puts a packet (update, users, chats) on the queue.
Put(tag) ==
    /\ updates_queue' = Append(updates_queue, tag)
    /\ calls' = [calls EXCEPT !.put = @ + 1]
    /\ UNCHANGED <<config, locks_list, worker, handler_worker_tasks, fn_tasks, last_fn,
                   registry, stop_waiting>>

\* Dispatcher.__init__, lines 57-70, for a client with the given configuration
InitWith(NoUpdates, Workers) ==
    /\ no_updates \in NoUpdates
    /\ workers \in Workers
    /\ locks_list = <<>>
    /\ handler_worker_tasks = <<>>
    /\ updates_queue = <<>>
    /\ groups = <<>>
    /\ error_handlers = <<>>
    /\ error_handler_coros = <<>>
    /\ global_error_handler = "None"
    /\ global_error_handler_coro = "None"
    /\ worker = <<>>
    /\ fn_tasks = <<>>
    /\ last_fn = [op |-> "None", result |-> "None"]
    /\ calls = [start |-> 0, stop |-> 0, put |-> 0]
    /\ stop_waiting = 0

----------------------------------------------------------------------------
(* The next-state relation over a scenario P: the mutations the            *)
(* application asks for, the update types the transport delivers, what     *)
(* the parsers and callbacks may do, and how many calls are made.          *)

AddHandler(h, g) == NewFn("add_handler", h, g, "None")

RemoveHandler(h, g) == NewFn("remove_handler", h, g, "None")

\* remove_error_handler(handler), remove_error_handler(error=k), remove_error_handler()
RemoveErrorHandler(h, k) == NewFn("remove_error_handler", h, 0, k)

NextWith(P) ==
    \/ \E tag \in P.tags :
          calls.put < P.maxPut /\ (calls.stop = 0 \/ P.putAfterStop) /\ Put(tag)
    \/ calls.start < P.maxStart /\ Start
    \/ /\ calls.stop < P.maxStop /\ calls.start >= P.stopAfter /\ calls.put >= P.stopAfterPut
       /\ Stop
    \/ StopJoin
    \/ \E f \in P.mutations :
          Len(fn_tasks) < P.maxFn /\ (calls.start = 0 \/ P.mutateAfterStart) /\ Issue(f)
    \/ \E t \in 1..Len(fn_tasks) : FnRun(t)
    \/ \E w \in 1..Len(worker) : WorkerGet(w)
    \/ \E w \in 1..Len(worker) : WorkerParse(w, P.parseOuts)
    \/ \E w \in 1..Len(worker) : WorkerLock(w)
    \/ \E w \in 1..Len(worker) : WorkerVisit(w, P.checkOuts, P.callOuts, P.ehOuts)
    \/ \E w \in 1..Len(worker) : WorkerDone(w)

----------------------------------------------------------------------------
(* Scenario 1: two workers dispatching while mutation tasks come and go.   *)

MaxPut == 2
MaxFn == 2

Concurrent ==
    [tags |-> {"UpdateNewMessage"}, maxPut |-> MaxPut, maxStart |-> 1, maxStop |-> 1,
     stopAfter |-> 1, stopAfterPut |-> 0, putAfterStop |-> TRUE,
     mutateAfterStart |-> TRUE, maxFn |-> MaxFn,
     mutations |-> {AddHandler("msgA", 0), AddHandler("errLookup", 0),
                    RemoveHandler("msgA", 0), RemoveHandler("msgA", 2),
                    RemoveErrorHandler("errLookup", "None")},
     parseOuts |-> {"ok"}, checkOuts |-> {"true"}, callOuts |-> {"ok"}, ehOuts |-> {"ok"}]

Init == InitWith({FALSE}, {2})

Next == NextWith(Concurrent)

Spec == Init /\ [][Next]_vars

----------------------------------------------------------------------------
(* Scenario 2: one worker, message and raw handlers in two groups, and     *)
(* callbacks that return, raise or signal.                                 *)

GroupsMaxPut == 1
GroupsMaxFn == 3

Grouped ==
    [tags |-> {"UpdateNewMessage"}, maxPut |-> GroupsMaxPut, maxStart |-> 1, maxStop |-> 1,
     stopAfter |-> 1, stopAfterPut |-> 0, putAfterStop |-> TRUE,
     mutateAfterStart |-> TRUE, maxFn |-> GroupsMaxFn,
     mutations |-> {AddHandler("msgA", 0), AddHandler("rawA", 0), AddHandler("rawA", 1)},
     parseOuts |-> {"ok"}, checkOuts |-> {"true", "false", "raise"},
     callOuts |-> {"ok", "stop", "cont", "KeyError"}, ehOuts |-> {"ok"}]

InitGroups == InitWith({FALSE}, {1})

NextGroups == NextWith(Grouped)

SpecGroups == InitGroups /\ [][NextGroups]_vars

----------------------------------------------------------------------------
(* Scenario 3: one worker and groups 0, 2 and 5 first used in any order.   *)

OrderMaxPut == 1
OrderMaxFn == 3

Ordered ==
    [tags |-> {"UpdateNewMessage"}, maxPut |-> OrderMaxPut, maxStart |-> 1, maxStop |-> 1,
     stopAfter |-> 1, stopAfterPut |-> 0, putAfterStop |-> TRUE,
     mutateAfterStart |-> TRUE, maxFn |-> OrderMaxFn,
     mutations |-> {AddHandler("rawA", 0), AddHandler("rawA", 2), AddHandler("rawA", 5),
                    AddHandler("msgA", 5), RemoveHandler("rawA", 2)},
     parseOuts |-> {"ok"}, checkOuts |-> {"true"}, callOuts |-> {"ok", "cont"},
     ehOuts |-> {"ok"}]

InitOrder == InitWith({FALSE}, {1})

NextOrder == NextWith(Ordered)

SpecOrder == InitOrder /\ [][NextOrder]_vars

----------------------------------------------------------------------------
(* Scenario 4: one worker, a message handler whose callback may raise, and *)
(* scoped and global error handlers that may raise as well, all registered *)
(* (and some removed) before start().                                      *)

RouteMaxPut == 1
RouteMaxFn == 4

Routed ==
    [tags |-> {"UpdateNewMessage"}, maxPut |-> RouteMaxPut, maxStart |-> 1, maxStop |-> 1,
     stopAfter |-> 1, stopAfterPut |-> RouteMaxPut, putAfterStop |-> TRUE,
     mutateAfterStart |-> FALSE, maxFn |-> RouteMaxFn,
     mutations |-> {AddHandler("msgA", 0), AddHandler("errLookup", 0), AddHandler("errKey", 0),
                    AddHandler("globA", 0), RemoveErrorHandler("errLookup", "None")},
     parseOuts |-> {"ok"}, checkOuts |-> {"true"},
     callOuts |-> {"ok", "KeyError"}, ehOuts |-> {"ok", "raise"}]

InitRoute == InitWith({FALSE}, {1})

NextRoute == NextWith(Routed)

SpecRoute == InitRoute /\ [][NextRoute]_vars

----------------------------------------------------------------------------
(* Scenario 5: one start() of one or two workers, events whose handling    *)
(* may fail at every step, and one stop() after which the transport        *)
(* delivers nothing more.                                                  *)

LifeMaxPut == 2
LifeMaxFn == 2

Lifecycle ==
    [tags |-> {"UpdateNewMessage"}, maxPut |-> LifeMaxPut, maxStart |-> 1, maxStop |-> 1,
     stopAfter |-> 1, stopAfterPut |-> 0, putAfterStop |-> FALSE,
     mutateAfterStart |-> TRUE, maxFn |-> LifeMaxFn,
     mutations |-> {AddHandler("msgA", 0), AddHandler("errKey", 0)},
     parseOuts |-> {"ok", "raise"}, checkOuts |-> {"true", "raise"},
     callOuts |-> {"ok", "KeyError"}, ehOuts |-> {"ok", "raise"}]

InitLife == InitWith({FALSE}, {1, 2})

NextLife == NextWith(Lifecycle)

SpecLife == InitLife /\ [][NextLife]_vars

\* The event loop runs every task that is ready to run: a worker whose await has
\* completed, a mutation task that holds or is handed a lock, stop() once the tasks it
\* awaits are done.
LoopFairness ==
    /\ \A w \in 1..2 :
          /\ WF_vars(w \in 1..Len(worker) /\ WorkerGet(w))
          /\ WF_vars(w \in 1..Len(worker) /\ WorkerParse(w, Lifecycle.parseOuts))
          /\ WF_vars(w \in 1..Len(worker) /\ WorkerLock(w))
          /\ WF_vars(w \in 1..Len(worker)
                     /\ WorkerVisit(w, Lifecycle.checkOuts, Lifecycle.callOuts, Lifecycle.ehOuts))
          /\ WF_vars(w \in 1..Len(worker) /\ WorkerDone(w))
    /\ \A t \in 1..LifeMaxFn : WF_vars(t \in 1..Len(fn_tasks) /\ FnRun(t))
    /\ WF_vars(StopJoin)

FairLife == SpecLife /\ LoopFairness

----------------------------------------------------------------------------
(* Scenario 6: one worker, updates of a type that has no parser next to    *)
(* updates that have one, and typed, raw and error handlers in one group.  *)

UntypedMaxPut == 1
UntypedMaxFn == 3

Untyped ==
    [tags |-> {"UpdateUnknown", "UpdateNewMessage"}, maxPut |-> UntypedMaxPut, maxStart |-> 1,
     maxStop |-> 1, stopAfter |-> 1, stopAfterPut |-> UntypedMaxPut, putAfterStop |-> TRUE,
     mutateAfterStart |-> FALSE, maxFn |-> UntypedMaxFn,
     mutations |-> {AddHandler("msgA", 0), AddHandler("editA", 0), AddHandler("errKey", 0),
                    AddHandler("rawA", 0)},
     parseOuts |-> {"ok"}, checkOuts |-> {"true"}, callOuts |-> {"ok", "cont", "KeyError"},
     ehOuts |-> {"ok"}]

InitUntyped == InitWith({FALSE}, {1})

NextUntyped == NextWith(Untyped)

SpecUntyped == InitUntyped /\ [][NextUntyped]_vars

----------------------------------------------------------------------------
(* Scenario 7: one worker, a message handler whose callback may raise, two *)
(* error handlers without errors and one with an empty list, registered    *)
(* before start(); the global slot may be emptied.                         *)

FallbackMaxPut == 1
FallbackMaxFn == 4

Fallback ==
    [tags |-> {"UpdateNewMessage"}, maxPut |-> FallbackMaxPut, maxStart |-> 1, maxStop |-> 1,
     stopAfter |-> 1, stopAfterPut |-> FallbackMaxPut, putAfterStop |-> TRUE,
     mutateAfterStart |-> FALSE, maxFn |-> FallbackMaxFn,
     mutations |-> {AddHandler("msgA", 0), AddHandler("globA", 0), AddHandler("globB", 0),
                    AddHandler("errEmpty", 0), RemoveErrorHandler("None", "None")},
     parseOuts |-> {"ok"}, checkOuts |-> {"true"}, callOuts |-> {"ok", "KeyError"},
     ehOuts |-> {"ok"}]

InitFallback == InitWith({FALSE}, {1})

NextFallback == NextWith(Fallback)

SpecFallback == InitFallback /\ [][NextFallback]_vars

----------------------------------------------------------------------------
(* Scenario 8: a client with or without updates that is started and        *)
(* stopped up to twice, in any order, with a handler and an error handler  *)
(* registered at any time.                                                 *)

RestartMaxPut == 1
RestartMaxFn == 2

Restarted ==
    [tags |-> {"UpdateNewMessage"}, maxPut |-> RestartMaxPut, maxStart |-> 2,
     maxStop |-> 2, stopAfter |-> 0, stopAfterPut |-> 0, putAfterStop |-> TRUE,
     mutateAfterStart |-> TRUE, maxFn |-> RestartMaxFn,
     mutations |-> {AddHandler("msgA", 0), AddHandler("errKey", 0)},
     parseOuts |-> {"ok"}, checkOuts |-> {"true"}, callOuts |-> {"ok", "KeyError"},
     ehOuts |-> {"ok"}]

InitRestart == InitWith({TRUE, FALSE}, {1})

NextRestart == NextWith(Restarted)

SpecRestart == InitRestart /\ [][NextRestart]_vars

----------------------------------------------------------------------------
(* Scenario 9: one or two workers and a queue of new-message and           *)
(* edited-message updates, with a handler for each and a raw handler.      *)

SeqMaxPut == 2
SeqMaxFn == 2

Sequenced ==
    [tags |-> {"UpdateNewMessage", "UpdateEditMessage"}, maxPut |-> SeqMaxPut, maxStart |-> 1,
     maxStop |-> 1, stopAfter |-> 1, stopAfterPut |-> SeqMaxPut, putAfterStop |-> TRUE,
     mutateAfterStart |-> TRUE, maxFn |-> SeqMaxFn,
     mutations |-> {AddHandler("msgA", 0), AddHandler("editA", 0), AddHandler("rawA", 1)},
     parseOuts |-> {"ok"}, checkOuts |-> {"true"}, callOuts |-> {"ok", "cont"},
     ehOuts |-> {"ok"}]

InitSeq == InitWith({FALSE}, {1, 2})

NextSeq == NextWith(Sequenced)

SpecSeq == InitSeq /\ [][NextSeq]_vars

----------------------------------------------------------------------------
(* Scenario 10: two workers dispatching while add, remove and              *)
(* remove_error_handler tasks are pending together; the transport delivers *)
(* its events before stop().                                               *)

BarrierMaxPut == 2
BarrierMaxFn == 2

Barrier ==
    [tags |-> {"UpdateNewMessage"}, maxPut |-> BarrierMaxPut, maxStart |-> 1, maxStop |-> 1,
     stopAfter |-> 1, stopAfterPut |-> BarrierMaxPut, putAfterStop |-> FALSE,
     mutateAfterStart |-> TRUE, maxFn |-> BarrierMaxFn,
     mutations |-> {AddHandler("msgA", 0), RemoveHandler("msgA", 0),
                    RemoveErrorHandler("None", "None")},
     parseOuts |-> {"ok"}, checkOuts |-> {"true"}, callOuts |-> {"ok"}, ehOuts |-> {"ok"}]

InitBarrier == InitWith({FALSE}, {2})

NextBarrier == NextWith(Barrier)

SpecBarrier == InitBarrier /\ [][NextBarrier]_vars

\* The event loop runs every task that is ready to run, and a lock that is released is
\* handed to its first waiter.
BarrierFairness ==
    /\ \A w \in 1..2 :
          /\ WF_vars(w \in 1..Len(worker) /\ WorkerGet(w))
          /\ WF_vars(w \in 1..Len(worker) /\ WorkerParse(w, Barrier.parseOuts))
          /\ WF_vars(w \in 1..Len(worker) /\ WorkerLock(w))
          /\ WF_vars(w \in 1..Len(worker)
                     /\ WorkerVisit(w, Barrier.checkOuts, Barrier.callOuts, Barrier.ehOuts))
          /\ WF_vars(w \in 1..Len(worker) /\ WorkerDone(w))
    /\ \A t \in 1..BarrierMaxFn : WF_vars(t \in 1..Len(fn_tasks) /\ FnRun(t))
    /\ WF_vars(StopJoin)

FairBarrier == SpecBarrier /\ BarrierFairness

----------------------------------------------------------------------------
(* Scenario 11: one worker, a message handler, a raw handler and a global  *)
(* error handler registered before start(), and parsers, checks and        *)
(* callbacks that may raise.                                               *)

FaultyMaxPut == 2
FaultyMaxFn == 3

Faulty ==
    [tags |-> {"UpdateNewMessage"}, maxPut |-> FaultyMaxPut, maxStart |-> 1, maxStop |-> 1,
     stopAfter |-> 1, stopAfterPut |-> FaultyMaxPut, putAfterStop |-> TRUE,
     mutateAfterStart |-> FALSE, maxFn |-> FaultyMaxFn,
     mutations |-> {AddHandler("msgA", 0), AddHandler("rawA", 0), AddHandler("globA", 0)},
     parseOuts |-> {"ok", "raise"}, checkOuts |-> {"true", "raise"},
     callOuts |-> {"ok", "KeyError"}, ehOuts |-> {"ok"}]

InitFaulty == InitWith({FALSE}, {1})

NextFaulty == NextWith(Faulty)

SpecFaulty == InitFaulty /\ [][NextFaulty]_vars

----------------------------------------------------------------------------
(* Scenario 12: two workers whose dispatches end in every way (the loops   *)
(* run out, StopPropagation, an exception of a handler or of an error      *)
(* handler), next to mutation tasks that succeed or fail.                  *)

HeldMaxPut == 2
HeldMaxFn == 2

Held ==
    [tags |-> {"UpdateNewMessage"}, maxPut |-> HeldMaxPut, maxStart |-> 1, maxStop |-> 1,
     stopAfter |-> 1, stopAfterPut |-> HeldMaxPut, putAfterStop |-> FALSE,
     mutateAfterStart |-> TRUE, maxFn |-> HeldMaxFn,
     mutations |-> {AddHandler("msgA", 0), AddHandler("errKey", 0), RemoveHandler("msgA", 2),
                    RemoveErrorHandler("errKey", "None")},
     parseOuts |-> {"ok", "raise"}, checkOuts |-> {"true"},
     callOuts |-> {"ok", "stop", "KeyError"}, ehOuts |-> {"ok", "raise"}]

InitHeld == InitWith({FALSE}, {2})

NextHeld == NextWith(Held)

SpecHeld == InitHeld /\ [][NextHeld]_vars

----------------------------------------------------------------------------
(* Scenario 13: one worker, a message handler whose callback may raise,    *)
(* and a scoped and a global error handler that are added to group 0 and   *)
(* taken out of it again with remove_handler before start().               *)

UnroutedMaxPut == 1
UnroutedMaxFn == 3

Unrouted ==
    [tags |-> {"UpdateNewMessage"}, maxPut |-> UnroutedMaxPut, maxStart |-> 1, maxStop |-> 1,
     stopAfter |-> 1, stopAfterPut |-> UnroutedMaxPut, putAfterStop |-> TRUE,
     mutateAfterStart |-> FALSE, maxFn |-> UnroutedMaxFn,
     mutations |-> {AddHandler("msgA", 0), AddHandler("errKey", 0), AddHandler("globA", 0),
                    RemoveHandler("errKey", 0), RemoveHandler("globA", 0)},
     parseOuts |-> {"ok"}, checkOuts |-> {"true"},
     callOuts |-> {"ok", "KeyError"}, ehOuts |-> {"ok"}]

InitUnrouted == InitWith({FALSE}, {1})

NextUnrouted == NextWith(Unrouted)

SpecUnrouted == InitUnrouted /\ [][NextUnrouted]_vars

----------------------------------------------------------------------------
(* Properties.                                                             *)

Dispatching(w) == worker[w].pc = "dispatch"

\* C1: mutation and dispatch exclude each other: a step that changes the registry
\* (groups, scoped error handlers and their flags, global slot) is taken only when no
\* worker is inside its dispatch iteration, a dispatching worker owns its lock, and so a
\* dispatch sees one registry from taking its lock to releasing it.
C1_MutualExclusion ==
    [][/\ \A w \in 1..Len(worker) : Dispatching(w) => locks_list[w].owner = w
       /\ (\E w \in 1..Len(worker) : Dispatching(w)) => registry' = registry]_vars

\* C1 witness: a mutation has been applied while another task waits for the lock of a
\* worker that is in the middle of its dispatch.
C1_Witness ==
    \E w \in 1..Len(worker), t, u \in 1..Len(fn_tasks) :
        /\ Dispatching(w) /\ worker[w].calls # <<>>
        /\ fn_tasks[t].st = "finished" /\ last_fn.result = "done"
        /\ fn_tasks[u].st = "wait" /\ fn_tasks[u].at = w

\* The task t ends in this step.
Ends(t) == FnActive(fn_tasks[t]) /\ ~FnActive(fn_tasks'[t])

\* remove_handler(h, g) names a group that does not exist or a handler not in it.
NotFound(f) ==
    /\ f.op = "remove_handler"
    /\ \/ f.group \notin GroupKeys(groups)
       \/ f.handler \notin Range(groups[GroupIndex(groups, f.group)].hs)

\* C10: a remove_handler for a missing group or a handler that is not in the group ends
\* with ValueError, leaves the registry as it was, and leaves the task holding and
\* awaiting no lock.
C10_RemoveNotFound ==
    [][\A t \in 1..Len(fn_tasks) :
          Ends(t) /\ NotFound(fn_tasks[t]) =>
              /\ last_fn' = [op |-> "remove_handler", result |-> "ValueError"]
              /\ registry' = registry
              /\ \A i \in 1..Len(locks_list) :
                    /\ locks_list'[i].owner # -t
                    /\ -t \notin Range(locks_list'[i].waiters)]_vars

\* C10 witness: a remove_handler has failed on an existing group, and a worker holds
\* its lock and dispatches while no mutation task holds any.
C10_Witness ==
    \E w \in 1..Len(worker) :
        /\ last_fn = [op |-> "remove_handler", result |-> "ValueError"]
        /\ groups # <<>>
        /\ Dispatching(w)
        /\ \A i \in 1..Len(locks_list) : locks_list[i].owner >= 0

\* The handlers worker w has invoked for the event it last dequeued, in order.
HandlerCalls(w) == SelectSeq(worker[w].calls, LAMBDA c : c.role = "handler")

\* The handler at position i of group g.
HandlerAt(g, i) == groups[GroupIndex(groups, g)].hs[i]

\* C2: for one event, two handlers of the same group are invoked only when the earlier
\* one signalled ContinuePropagation, and then the later one stands later in the group;
\* and while the dispatch runs, every invoked handler is a selected one (raw, or of the
\* update's category with a true check) and no raw handler standing before an invoked
\* handler of its group has been passed over.
C2_OnePerGroup ==
    \A w \in 1..Len(worker) :
        LET hc == HandlerCalls(w)
        IN  /\ \A a, b \in 1..Len(hc) :
                  a < b /\ hc[a].g = hc[b].g => hc[a].r = "cont" /\ hc[a].i < hc[b].i
            /\ Dispatching(w) =>
                  \A a \in 1..Len(hc) :
                      /\ hc[a].g \in GroupKeys(groups)
                      /\ hc[a].i <= Len(groups[GroupIndex(groups, hc[a].g)].hs)
                      /\ HandlerAt(hc[a].g, hc[a].i) = hc[a].h
                      /\ \/ HandlerClass(hc[a].h) = worker[w].handler_type /\ hc[a].args = "parsed"
                         \/ HandlerClass(hc[a].h) = "RawUpdateHandler" /\ hc[a].args = "raw"
                      /\ \A j \in 1..(hc[a].i - 1) :
                            HandlerClass(HandlerAt(hc[a].g, j)) = "RawUpdateHandler" =>
                                \E b \in 1..Len(hc) :
                                    hc[b].g = hc[a].g /\ hc[b].i = j /\ hc[b].r = "cont"

\* C2 witness: the loops are over a group of three raw handlers; the first signalled
\* ContinuePropagation, the second returned, and the third was not invoked.
C2_Witness ==
    \E w \in 1..Len(worker) :
        /\ Dispatching(w) /\ worker[w].gi > Len(groups)
        /\ Len(groups) = 1
        /\ groups[1].hs = <<"rawA", "rawA", "rawA">>
        /\ Len(HandlerCalls(w)) = 2
        /\ HandlerCalls(w)[1].i = 1 /\ HandlerCalls(w)[1].r = "cont"
        /\ HandlerCalls(w)[2].i = 2 /\ HandlerCalls(w)[2].r = "ok"

\* C3: a handler call that signals StopPropagation is the last thing the worker does
\* for the event: nothing is invoked or logged after it, and the worker is back at the
\* dequeue step with its lock released.
C3_StopPropagation ==
    \A w \in 1..Len(worker) :
        \A a \in 1..Len(worker[w].calls) :
            worker[w].calls[a].role = "handler" /\ worker[w].calls[a].r = "stop" =>
                /\ a = Len(worker[w].calls)
                /\ worker[w].pc = "get"
                /\ locks_list[w].owner # w
                /\ w \notin Range(locks_list[w].waiters)

\* C3 witness: the first handler of group 0 signalled StopPropagation; a raw handler
\* after it in the group and one in group 1 were not invoked.
C3_Witness ==
    \E w \in 1..Len(worker) :
        /\ Len(worker[w].calls) = 1
        /\ worker[w].calls[1].r = "stop" /\ worker[w].calls[1].g = 0
        /\ worker[w].calls[1].i = 1
        /\ Len(groups) = 2
        /\ Len(groups[1].hs) = 2 /\ groups[1].hs[2] = "rawA"
        /\ groups[2].hs = <<"rawA">>
        /\ worker[w].pc = "get" /\ IsFree(locks_list[w])

\* The group keys are unique and ascending.
SortedKeys == \A i \in 1..(Len(groups) - 1) : groups[i].key < groups[i + 1].key

\* A dispatch invokes handlers in ascending group order and, inside a group, in the
\* order of the group's list.
AscendingCalls ==
    \A w \in 1..Len(worker) :
        \A a, b \in 1..Len(HandlerCalls(w)) :
            a < b => \/ HandlerCalls(w)[a].g < HandlerCalls(w)[b].g
                     \/ /\ HandlerCalls(w)[a].g = HandlerCalls(w)[b].g
                        /\ HandlerCalls(w)[a].i < HandlerCalls(w)[b].i

\* The list of group g, empty when the group does not exist.
GroupList(gs, g) == IF g \in GroupKeys(gs) THEN gs[GroupIndex(gs, g)].hs ELSE <<>>

\* A successful add_handler puts the handler at the end of its group's list and a
\* successful remove_handler takes one occurrence out; the other lists are not touched.
KeepsInsertionOrder ==
    \A t \in 1..Len(fn_tasks) :
        LET f == fn_tasks[t]
        IN  Ends(t) /\ last_fn'.result = "done" /\ f.op \in {"add_handler", "remove_handler"} =>
                /\ \A g \in (GroupKeys(groups) \cup GroupKeys(groups')) \ {f.group} :
                      GroupList(groups', g) = GroupList(groups, g)
                /\ f.op = "add_handler" =>
                      GroupList(groups', f.group) = Append(GroupList(groups, f.group), f.handler)
                /\ f.op = "remove_handler" =>
                      GroupList(groups', f.group) =
                          Pop(GroupList(groups, f.group),
                              IndexOf(GroupList(groups, f.group), f.handler))

\* C4: whatever the order in which add_handler and remove_handler are called and
\* priorities are first used, the group keys are unique and ascending, additions go to
\* the end of their group's list, and a dispatch invokes handlers in ascending group
\* order and in list order inside a group.
C4_GroupOrder == [](SortedKeys /\ AscendingCalls) /\ [][KeepsInsertionOrder]_vars

\* C4 witness: groups 0, 2 and 5 exist, whatever the order they were first used in, and
\* a dispatch has invoked the handler of each, in that order, and is over.
C4_Witness ==
    \E w \in 1..Len(worker) :
        /\ Dispatching(w) /\ worker[w].gi > Len(groups)
        /\ [i \in 1..Len(groups) |-> groups[i].key] = <<0, 2, 5>>
        /\ [i \in 1..Len(HandlerCalls(w)) |-> HandlerCalls(w)[i].g] = <<0, 2, 5>>

\* What worker w calls and logs in this step of its dispatch.
NewCalls(w) == SubSeq(worker'[w].calls, Len(worker[w].calls) + 1, Len(worker'[w].calls))

\* In this step worker w invokes a handler whose callback raises an ordinary exception.
HandlerRaises(w) ==
    /\ Dispatching(w)
    /\ Len(worker'[w].calls) > Len(worker[w].calls)
    /\ NewCalls(w)[1].role = "handler"
    /\ NewCalls(w)[1].r \in Kinds

\* The scoped error handlers that exception kind k is an instance of, in registration order.
Matching(k) == SelectSeq(error_handlers, LAMBDA h : IsInstance(k, Errors(h)))

\* The handlers of the calls with the given role, in call order.
Called(cs, role) ==
    LET sel == SelectSeq(cs, LAMBDA c : c.role = role)
    IN  [i \in 1..Len(sel) |-> sel[i].h]

\* s is the start of the sequence q.
IsPrefix(s, q) == Len(s) <= Len(q) /\ s = SubSeq(q, 1, Len(s))

\* C5 as the specification states it: every matching scoped error handler is called,
\* in registration order, then the global one if there is one, and the worker goes on.
C5_AllMatchingThenGlobal ==
    [][\A w \in 1..Len(worker) :
          HandlerRaises(w) =>
              LET new == NewCalls(w)
              IN  /\ Called(new, "scoped") = Matching(new[1].r)
                  /\ global_error_handler # "None" =>
                        Called(new, "global") = <<global_error_handler>>
                  /\ ~Exited(w)']_vars

\* The calls of cs other than the handler's own: scoped ones, then at most one global one.
ScopedThenGlobal(cs) ==
    \A a, b \in 2..Len(cs) : a < b /\ cs[a].role # "log" /\ cs[b].role # "log" =>
        cs[a].role = "scoped" /\ cs[b].role \in {"scoped", "global"}

\* A call of an error handler that raised.
Raised(c) == c.role \in {"scoped", "global"} /\ c.r \notin {"ok", "notrun"}

\* C5, amended: the matching scoped error handlers are called in registration order,
\* each the way its stored flag says, up to and including the first whose call raises;
\* if none raises and a global error handler is registered it is called after them,
\* matched or not; and the worker keeps running.
C5_ErrorRouting ==
    [][\A w \in 1..Len(worker) :
          HandlerRaises(w) =>
              LET new == NewCalls(w)
                  scoped == SelectSeq(new, LAMBDA c : c.role = "scoped")
                  failed == \E a \in 1..Len(scoped) : Raised(scoped[a])
              IN  /\ IsPrefix(Called(new, "scoped"), Matching(new[1].r))
                  /\ \A a \in 1..Len(scoped) :
                        /\ Raised(scoped[a]) => a = Len(scoped)
                        /\ scoped[a].mode =
                              IF error_handler_coros[IndexOf(error_handlers, scoped[a].h)] = "True"
                              THEN "await" ELSE "executor"
                  /\ ~failed => Called(new, "scoped") = Matching(new[1].r)
                  /\ ~failed /\ global_error_handler # "None" =>
                        Called(new, "global") = <<global_error_handler>>
                  /\ failed \/ global_error_handler = "None" => Called(new, "global") = <<>>
                  /\ ScopedThenGlobal(new)
                  /\ ~Exited(w)']_vars

\* C5 witness: a handler raised KeyError; both scoped error handlers match it and were
\* called in registration order, and the global one after them.
C5_Witness ==
    \E w \in 1..Len(worker) :
        /\ Dispatching(w)
        /\ error_handlers = <<"errLookup", "errKey">>
        /\ global_error_handler = "globA"
        /\ Len(worker[w].calls) = 4
        /\ worker[w].calls[1].role = "handler" /\ worker[w].calls[1].r = "KeyError"
        /\ Called(worker[w].calls, "scoped") = <<"errLookup", "errKey">>
        /\ worker[w].calls[4].role = "global" /\ worker[w].calls[4].h = "globA"

\* C6 as the specification states it: with no matching scoped error handler and no
\* global one, the exception of a handler is logged and the dispatch of the event goes
\* on with the next group, as after any other invoked handler.
C6_LoggedAndContinues ==
    [][\A w \in 1..Len(worker) :
          /\ HandlerRaises(w)
          /\ Matching(NewCalls(w)[1].r) = <<>>
          /\ global_error_handler = "None"
          => /\ Len(NewCalls(w)) = 2
             /\ NewCalls(w)[2] = Log("line327", NewCalls(w)[1].r)
             /\ Dispatching(w)'
             /\ worker'[w].gi = Position(groups, worker[w].gi + 1, 1).gi]_vars

\* The workers that have not left their loop.
Running == {w \in 1..Len(worker) : ~Exited(w)}

\* The sentinels in the queue.
QueuedSentinels == {i \in 1..Len(updates_queue) : updates_queue[i] = "None"}

\* A worker leaves its loop only from the dequeue step, by taking a sentinel.
ExitsBySentinel ==
    \A w \in 1..Len(worker) :
        ~Exited(w) /\ Exited(w)' =>
            /\ worker[w].pc = "get"
            /\ updates_queue # <<>> /\ Head(updates_queue) = "None"
            /\ updates_queue' = Tail(updates_queue)

\* As many workers run as were started, less one for every sentinel dequeued.
RunningCount ==
    Cardinality(Running) =
        workers * calls.start - (workers * calls.stop - Cardinality(QueuedSentinels))

\* What was raised up to the outer guard (line 333) left the worker at the dequeue step
\* with its lock released.
BackAtDequeue ==
    \A w \in 1..Len(worker) :
        LET cs == worker[w].calls
        IN  cs # <<>> /\ cs[Len(cs)].role = "log" /\ cs[Len(cs)].h = "line333" =>
                worker[w].pc = "get" /\ locks_list[w].owner # w

\* C7: whatever a parser, a check, a handler callback or an error handler raises, the
\* worker is back at the dequeue step; the number of running workers is the configured
\* count until sentinels are dequeued, and a worker leaves its loop only by dequeuing a
\* sentinel.
C7_WorkersSurvive == [](RunningCount /\ BackAtDequeue) /\ [][ExitsBySentinel]_vars

\* C7 witness: an error handler raised while handling the exception of a handler; with
\* no stop() called, both workers are running and this one is back at the dequeue step.
C7_Witness ==
    \E w \in 1..Len(worker) :
        /\ workers = 2 /\ calls.stop = 0 /\ Cardinality(Running) = 2
        /\ Len(worker[w].calls) = 3
        /\ worker[w].calls[1].r = "KeyError"
        /\ worker[w].calls[2].role = "scoped" /\ worker[w].calls[2].r = "Exception"
        /\ worker[w].calls[3] = Log("line333", "Exception")
        /\ worker[w].pc = "get"

\* Every real event has been dequeued.
AllDequeued == \A i \in 1..Len(updates_queue) : updates_queue[i] = "None"

\* Every real event has been dequeued and no worker is still handling one.
AllProcessed == AllDequeued /\ \A w \in 1..Len(worker) : worker[w].pc \in {"get", "exited"}

\* stop() has been called and has returned.
StopReturned == calls.stop > 0 /\ stop_waiting = 0

\* C8 as the specification states it: when a worker has exited, every event enqueued
\* before stop() has been processed.
C8_ProcessedBeforeAnyExit == (\E w \in 1..Len(worker) : Exited(w)) => AllProcessed

\* C8, amended: when a worker has exited, every event enqueued before stop() has been
\* dequeued; when stop() has returned, every one of them has been processed; and with
\* one worker they have all been processed when the worker exits.
C8_DequeuedBeforeAnyExit ==
    /\ (\E w \in 1..Len(worker) : Exited(w)) => AllDequeued
    /\ StopReturned => AllProcessed
    /\ workers = 1 /\ (\E w \in 1..Len(worker) : Exited(w)) => AllProcessed

\* C8 witness: of two workers one has taken its sentinel and exited while the other is
\* still dispatching the last event, and stop() is waiting for it.
C8_Witness ==
    \E w, v \in 1..Len(worker) :
        /\ Exited(w) /\ Dispatching(v)
        /\ updates_queue = <<"None">>
        /\ calls.put = LifeMaxPut
        /\ stop_waiting = 1

\* stop() puts exactly one sentinel per configured worker at the end of the queue.
StopEnqueues ==
    calls'.stop # calls.stop =>
        /\ Len(updates_queue') = Len(updates_queue) + workers
        /\ \A i \in 1..Len(updates_queue') :
              updates_queue'[i] = IF i <= Len(updates_queue) THEN updates_queue[i] ELSE "None"

\* After stop(), every sentinel is in the queue or has ended exactly one worker, and a
\* worker that has exited stays so.
OneSentinelEach ==
    /\ calls.stop = 1 => Cardinality(QueuedSentinels) + (workers - Cardinality(Running)) = workers
    /\ calls.stop = 0 => Cardinality(QueuedSentinels) = 0 /\ Cardinality(Running) = Len(worker)

\* stop() has returned, all workers have exited, no sentinel is left and no task is listed.
ShutDown ==
    /\ StopReturned
    /\ Len(worker) = workers /\ Running = {}
    /\ QueuedSentinels = {}
    /\ handler_worker_tasks = <<>>

\* C9: after one start() with N workers, stop() enqueues exactly N sentinels, each
\* worker dequeues exactly one and exits for good, and, as every parser and handler
\* call terminates, stop() eventually returns with all N workers exited, no sentinel
\* left in the queue and the worker-task list empty.
C9_ShutdownTerminates ==
    /\ [][StopEnqueues /\ \A w \in 1..Len(worker) : Exited(w) => Exited(w)']_vars
    /\ []OneSentinelEach
    /\ (calls.stop = 1) ~> ShutDown

\* C9 witness: two workers were started and handled events, and stop() has returned
\* with both exited and nothing left.
C9_Witness == ShutDown /\ workers = 2 /\ calls.put = LifeMaxPut /\ groups = <<>>

\* C11: for an update whose type has no parser the handler type is type(None), and the
\* only handlers invoked for it are raw-update handlers, called with the raw update and
\* the entity maps; no typed handler and no ErrorHandler is invoked as its handler.
C11_UntypedToRawOnly ==
    \A w \in 1..Len(worker) :
        ~HasParser(worker[w].update) /\ worker[w].update # "None" =>
            /\ worker[w].handler_type \in {"None", "NoneType"}
            /\ worker[w].pc \in {"lock", "lockwait", "dispatch"} =>
                  worker[w].handler_type = "NoneType"
            /\ \A a \in 1..Len(HandlerCalls(w)) :
                  /\ HandlerClass(HandlerCalls(w)[a].h) = "RawUpdateHandler"
                  /\ HandlerCalls(w)[a].args = "raw"

\* C11 witness: the group holds a message handler, an error handler and a raw handler in
\* this order; the dispatch of an update without parser is over and has invoked the raw
\* handler only.
C11_Witness ==
    \E w \in 1..Len(worker) :
        /\ worker[w].update = "UpdateUnknown"
        /\ Dispatching(w) /\ worker[w].gi > Len(groups)
        /\ Len(groups) = 1 /\ groups[1].hs = <<"msgA", "errKey", "rawA">>
        /\ Len(worker[w].calls) = 1
        /\ worker[w].calls[1].role = "handler" /\ worker[w].calls[1].h = "rawA"
        /\ worker[w].calls[1].i = 3 /\ worker[w].calls[1].args = "raw"

\* C12 as the specification states it: remove_error_handler(handler) for a registered
\* scoped handler ends without error and takes the handler and its flag out of the two
\* lists, so that the other handlers keep their flags; for a handler that is not
\* registered it ends with ValueError and changes nothing.
C12_RemovesHandlerAndFlag ==
    [][\A t \in 1..Len(fn_tasks) :
          LET f == fn_tasks[t]
              i == IndexOf(error_handlers, f.handler)
          IN  Ends(t) /\ f.op = "remove_error_handler" /\ f.handler # "None" =>
                  IF i = 0
                  THEN last_fn'.result = "ValueError" /\ registry' = registry
                  ELSE /\ last_fn'.result = "done"
                       /\ error_handlers' = Pop(error_handlers, i)
                       /\ error_handler_coros' = Pop(error_handler_coros, i)
                       /\ UNCHANGED <<groups, global_error_handler,
                                      global_error_handler_coro>>]_vars

\* The task t ends an add_handler of an ErrorHandler in this step.
AddsErrorHandler(t) ==
    Ends(t) /\ fn_tasks[t].op = "add_handler" /\ HandlerClass(fn_tasks[t].handler) = "ErrorHandler"

\* The handler becomes the global one: the slot and its flag are replaced, the scoped
\* lists stay.
BecomesGlobal(h) ==
    /\ global_error_handler' = h
    /\ global_error_handler_coro' = CoroFlag(h)
    /\ UNCHANGED <<error_handlers, error_handler_coros>>

\* The handler goes to the end of the scoped list, its flag to the end of the flags; the
\* global slot stays.
BecomesScoped(h) ==
    /\ error_handlers' = Append(error_handlers, h)
    /\ error_handler_coros' = Append(error_handler_coros, CoroFlag(h))
    /\ UNCHANGED <<global_error_handler, global_error_handler_coro>>

\* remove_error_handler() without argument empties the global slot and nothing else.
ClearsGlobal ==
    \A t \in 1..Len(fn_tasks) :
        /\ Ends(t) /\ fn_tasks[t].op = "remove_error_handler"
        /\ fn_tasks[t].handler = "None" /\ fn_tasks[t].error = "None"
        => /\ global_error_handler' = "None" /\ global_error_handler_coro' = "None"
           /\ last_fn'.result = "done"
           /\ UNCHANGED <<groups, error_handlers, error_handler_coros>>

\* For the exception of a handler at most one global error handler is called, the one
\* in the slot.
OnlyLatestGlobal ==
    \A w \in 1..Len(worker) :
        HandlerRaises(w) => Called(NewCalls(w), "global") \in {<<>>, <<global_error_handler>>}

\* C13 as the specification states it: an ErrorHandler whose filter set is absent or
\* empty becomes the global one, replacing the one before; one with a non-empty filter
\* set is appended to the scoped list; remove_error_handler() empties the global slot.
C13_AbsentOrEmptyIsGlobal ==
    [][/\ \A t \in 1..Len(fn_tasks) :
             AddsErrorHandler(t) =>
                 IF Errors(fn_tasks[t].handler).kinds = {}
                 THEN BecomesGlobal(fn_tasks[t].handler)
                 ELSE BecomesScoped(fn_tasks[t].handler)
       /\ ClearsGlobal
       /\ OnlyLatestGlobal]_vars

\* C13, amended: an ErrorHandler whose errors are absent (None) becomes the global one,
\* replacing the one before, and only the one in the slot is ever called as global; an
\* ErrorHandler with any other errors, the empty list included, is appended to the scoped
\* list with its flag, where one with no error class is never called;
\* remove_error_handler() empties the global slot.
C13_AbsentIsGlobal ==
    /\ [][/\ \A t \in 1..Len(fn_tasks) :
                AddsErrorHandler(t) =>
                    IF Errors(fn_tasks[t].handler).form = "None"
                    THEN BecomesGlobal(fn_tasks[t].handler)
                    ELSE BecomesScoped(fn_tasks[t].handler)
          /\ ClearsGlobal
          /\ OnlyLatestGlobal]_vars
    /\ [](\A w \in 1..Len(worker) : \A a \in 1..Len(worker[w].calls) :
              worker[w].calls[a].role \in {"scoped", "global"} =>
                  worker[w].calls[a].h # "errEmpty")

\* C13 witness: globA was registered, then globB, then an ErrorHandler with an empty
\* list, which went to the scoped list; for the KeyError of the message handler globB
\* and nothing else was called.
C13_Witness ==
    \E w \in 1..Len(worker) :
        /\ Len(groups) = 1 /\ groups[1].hs = <<"globA", "globB", "errEmpty", "msgA">>
        /\ global_error_handler = "globB" /\ global_error_handler_coro = "False"
        /\ error_handlers = <<"errEmpty">>
        /\ Dispatching(w) /\ Len(worker[w].calls) = 2
        /\ worker[w].calls[1].role = "handler" /\ worker[w].calls[1].r = "KeyError"
        /\ worker[w].calls[2].role = "global" /\ worker[w].calls[2].h = "globB"

\* A stop() returns in this step: at once, or when the last task it awaits is done.
StopReturns ==
    \/ calls'.stop # calls.stop /\ stop_waiting' = stop_waiting
    \/ stop_waiting' < stop_waiting

\* The handlers of all groups.
Registered == UNION {Range(groups[i].hs) : i \in 1..Len(groups)}

\* C14 as the specification states it: when stop() returns (updates enabled) the groups,
\* the scoped error handlers with their flags and the global slot are empty, so that a
\* dispatch calls no error handler other than those registered since, which are the
\* ones in the groups.
C14_StopClearsRegistry ==
    /\ [][StopReturns /\ ~no_updates =>
             /\ groups' = <<>>
             /\ error_handlers' = <<>> /\ error_handler_coros' = <<>>
             /\ global_error_handler' = "None" /\ global_error_handler_coro' = "None"]_vars
    /\ [](\A w \in 1..Len(worker) :
              Dispatching(w) =>
                  \A a \in 1..Len(worker[w].calls) :
                      worker[w].calls[a].role \in {"scoped", "global"} =>
                          worker[w].calls[a].h \in Registered)

\* A start() or a stop() is called in this step.
StartOrStop == calls'.start # calls.start \/ calls'.stop # calls.stop

\* C15: with updates disabled, a start() and a stop() change nothing but the count of
\* calls: no worker, no lock and no task is created, nothing is put on the queue, stop()
\* waits for nothing and the registry stays; so the worker list, the lock list and the
\* task list stay empty and the queue holds what the transport has put, no sentinel.
C15_NoUpdatesNoEffect ==
    /\ [][no_updates /\ StartOrStop =>
             UNCHANGED <<config, locks_list, handler_worker_tasks, updates_queue, registry,
                         worker, fn_tasks, last_fn, stop_waiting>>]_vars
    /\ [](no_updates =>
             /\ worker = <<>> /\ locks_list = <<>> /\ handler_worker_tasks = <<>>
             /\ stop_waiting = 0
             /\ Len(updates_queue) = calls.put /\ QueuedSentinels = {})

\* C15 witness: with updates disabled, start() and stop() were called twice each, with
\* a handler registered and a packet in the queue, both still there.
C15_Witness ==
    /\ no_updates /\ calls.start = 2 /\ calls.stop = 2
    /\ groups # <<>> /\ error_handlers # <<>>
    /\ updates_queue = <<"UpdateNewMessage">>
    /\ worker = <<>> /\ locks_list = <<>>

\* Worker w is between the dequeue of an event and the end of its dispatch.
Handling(w) == worker[w].pc \in {"parse", "lock", "lockwait", "dispatch"}

\* A packet is put at the end of the queue, behind everything put before it.
PutsAtTheEnd ==
    calls'.put # calls.put =>
        Len(updates_queue') = Len(updates_queue) + 1
            /\ SubSeq(updates_queue', 1, Len(updates_queue)) = updates_queue

\* A worker takes its next event only when the dispatch of the one before is complete
\* (it is at the dequeue step and does not hold its lock); it takes the oldest packet of
\* the queue, and starts with nothing invoked for it.
TakesOldestWhenDone ==
    \A w \in 1..Len(worker) :
        /\ Handling(w)' /\ ~Handling(w) =>
              /\ worker[w].pc = "get" /\ locks_list[w].owner # w
              /\ worker'[w].update = Head(updates_queue)
              /\ updates_queue' = Tail(updates_queue)
              /\ worker'[w].calls = <<>>
        /\ Handling(w)' /\ Handling(w) =>
              /\ worker'[w].update = worker[w].update
              /\ IsPrefix(worker[w].calls, worker'[w].calls)
        /\ worker[w].pc = "get" /\ updates_queue' # updates_queue /\ ~StartOrStop
           /\ calls'.put = calls.put => updates_queue' = Tail(updates_queue)

\* What a worker invokes is invoked for the event it took last, inside its dispatch.
InvokesForCurrent ==
    \A w \in 1..Len(worker) :
        Len(worker'[w].calls) > Len(worker[w].calls) =>
            /\ worker[w].pc \in {"parse", "dispatch"}
            /\ worker'[w].update = worker[w].update
            /\ worker[w].pc = "dispatch" => locks_list[w].owner = w

\* C16: packets leave the queue in the order they were put; a worker takes the next one
\* only when everything it invokes for the one before is over, and invokes handlers only
\* for the one it took last; with one worker no two events are ever being handled at the
\* same time, so events are dispatched strictly in the order they were enqueued.
C16_DispatchInOrder ==
    /\ [][PutsAtTheEnd /\ TakesOldestWhenDone /\ InvokesForCurrent]_vars
    /\ [](workers = 1 => Cardinality({w \in 1..Len(worker) : Handling(w)}) <= 1)

\* C16 witness: the only worker has invoked a handler for a new-message update while the
\* edited-message update put after it is still in the queue.
C16_Witness ==
    /\ workers = 1 /\ Len(worker) = 1
    /\ worker[1].update = "UpdateNewMessage" /\ Dispatching(1)
    /\ Len(worker[1].calls) > 0
    /\ updates_queue = <<"UpdateEditMessage">>

\* The mutation task t is in lock i: it owns it or waits for it.
InLock(t, i) == locks_list[i].owner = -t \/ -t \in Range(locks_list[i].waiters)

\* A mutation task takes the locks in the order of the list: waiting at a lock it owns
\* every lock before it and is in none after it; not waiting, it is in none.
FixedOrder ==
    \A t \in 1..Len(fn_tasks) : \A i \in 1..Len(locks_list) :
        IF fn_tasks[t].st = "wait"
        THEN /\ i < fn_tasks[t].at => locks_list[i].owner = -t
             /\ i = fn_tasks[t].at => InLock(t, i)
             /\ i > fn_tasks[t].at => ~InLock(t, i)
        ELSE ~InLock(t, i)

\* A worker is in no lock but its own, and only from "async with lock" to its end.
OwnLockOnly ==
    \A i \in 1..Len(locks_list) : \A w \in 1..Len(worker) :
        locks_list[i].owner = w \/ w \in Range(locks_list[i].waiters) =>
            i = w /\ worker[w].pc \in {"lockwait", "dispatch"}

\* No mutation task is pending, and once started no event is queued or being handled.
Quiet ==
    /\ \A t \in 1..Len(fn_tasks) : ~FnActive(fn_tasks[t])
    /\ calls.start > 0 => AllProcessed

\* C17: mutation tasks take the locks in list order and a worker only its own, and no
\* wait lasts forever: as handler calls terminate and a released lock goes to its first
\* waiter, every mutation task that was issued ends and every event that was queued is
\* dispatched, however many tasks are pending together.
C17_BarrierLive == [](FixedOrder /\ OwnLockOnly) /\ []<>Quiet

\* C17 witness: worker 2 dispatches; the first mutation task owns lock 1 and waits for
\* lock 2, and the second waits for lock 1 behind it.
C17_Witness ==
    /\ Len(worker) = 2 /\ Dispatching(2) /\ locks_list[2].owner = 2
    /\ Len(fn_tasks) = 2
    /\ fn_tasks[1].st = "wait" /\ fn_tasks[1].at = 2 /\ locks_list[1].owner = -1
    /\ fn_tasks[2].st = "wait" /\ fn_tasks[2].at = 1 /\ locks_list[1].waiters = <<-2>>

\* C18: when an error handler, scoped or global, raises while the exception of a handler
\* is routed, its call is the last call of the routing: no scoped and no global error
\* handler is called after it; what it raised is logged by the outer guard (line 333),
\* the worker's lock is released and the worker is back at the dequeue step.
C18_ErrorHandlerRaises ==
    [][\A w \in 1..Len(worker) :
          HandlerRaises(w) /\ (\E a \in 1..Len(NewCalls(w)) : Raised(NewCalls(w)[a])) =>
              LET new == NewCalls(w)
                  n == Len(new)
              IN  /\ n >= 3
                  /\ Raised(new[n - 1])
                  /\ \A a \in 1..(n - 2) : ~Raised(new[a])
                  /\ new[n] = Log("line333", new[n - 1].r)
                  /\ \A a \in 1..n : new[a] # Log("line327", new[1].r)
                  /\ worker'[w].pc = "get"
                  /\ locks_list'[w].owner # w /\ w \notin Range(locks_list'[w].waiters)]_vars

\* C18 witness: the first of two matching scoped error handlers raised; the second and
\* the global one were not called, the outer guard logged, and the worker is back at the
\* dequeue step with its lock free.
C18_Witness ==
    \E w \in 1..Len(worker) :
        /\ error_handlers = <<"errLookup", "errKey">>
        /\ global_error_handler = "globA"
        /\ Len(worker[w].calls) = 3
        /\ worker[w].calls[1].role = "handler" /\ worker[w].calls[1].r = "KeyError"
        /\ worker[w].calls[2].role = "scoped" /\ worker[w].calls[2].h = "errLookup"
        /\ worker[w].calls[2].r = "Exception"
        /\ worker[w].calls[3] = Log("line333", "Exception")
        /\ worker[w].pc = "get" /\ IsFree(locks_list[w])

\* In this step the check of the handler worker w has come to raises.
CheckRaises(w) ==
    /\ Dispatching(w)
    /\ Len(worker'[w].calls) > Len(worker[w].calls)
    /\ NewCalls(w)[1] = Log("line272", "Exception")

\* C19: when the check of a handler of the update's category raises, the exception is
\* logged and nothing is called: neither the handler nor any error handler; the worker
\* keeps its lock and goes on with the next handler of the same group, which can still
\* get the update.
C19_CheckRaises ==
    [][\A w \in 1..Len(worker) :
          CheckRaises(w) =>
              /\ HandlerClass(groups[worker[w].gi].hs[worker[w].hi]) = worker[w].handler_type
              /\ Len(NewCalls(w)) = 1
              /\ Dispatching(w)' /\ locks_list'[w].owner = w
              /\ worker'[w].gi = Position(groups, worker[w].gi, worker[w].hi + 1).gi
              /\ worker'[w].hi = Position(groups, worker[w].gi, worker[w].hi + 1).hi
              /\ worker[w].hi < Len(groups[worker[w].gi].hs) =>
                    worker'[w].gi = worker[w].gi /\ worker'[w].hi = worker[w].hi + 1]_vars

\* C19 witness: with a global error handler registered, the check of the message handler
\* raised; it was logged, no error handler was called, and the raw handler behind it in
\* the group got the update.
C19_Witness ==
    \E w \in 1..Len(worker) :
        /\ global_error_handler = "globA"
        /\ Len(groups) = 1 /\ groups[1].hs = <<"globA", "msgA", "rawA">>
        /\ Dispatching(w)
        /\ Len(worker[w].calls) = 2
        /\ worker[w].calls[1] = Log("line272", "Exception")
        /\ worker[w].calls[2].role = "handler" /\ worker[w].calls[2].h = "rawA"
        /\ worker[w].calls[2].i = 3 /\ worker[w].calls[2].r = "ok"

\* In this step the parser of the update worker w has dequeued ends.
ParseEnds(w) == worker[w].pc = "parse" /\ worker'[w].pc # "parse"

\* C20: the parser either returns, and the worker goes on to its lock, or raises, and
\* then the update is dropped: the exception is logged by the outer guard and nothing
\* else is called for the update, the worker has not taken its lock, the update is not
\* put back on the queue, and the worker is at the dequeue step for the next one.
C20_ParserRaises ==
    /\ [][\A w \in 1..Len(worker) :
             ParseEnds(w) =>
                 \/ worker'[w].pc = "lock" /\ worker'[w].calls = <<>>
                 \/ /\ worker'[w].pc = "get"
                    /\ worker'[w].calls = <<Log("line333", "Exception")>>
                    /\ UNCHANGED <<updates_queue, locks_list, registry>>]_vars
    /\ [](\A w \in 1..Len(worker) :
             worker[w].pc = "parse" =>
                 /\ worker[w].calls = <<>>
                 /\ locks_list[w].owner # w /\ w \notin Range(locks_list[w].waiters))

\* C20 witness: with a message handler, a raw handler and a global error handler
\* registered, the parser raised for the first of two updates: only the log entry was
\* made, the lock is free, and the second update is the next in the queue.
C20_Witness ==
    \E w \in 1..Len(worker) :
        /\ Registered = {"msgA", "rawA", "globA"}
        /\ worker[w].pc = "get"
        /\ worker[w].calls = <<Log("line333", "Exception")>>
        /\ IsFree(locks_list[w])
        /\ updates_queue = <<"UpdateNewMessage">>
        /\ calls.put = 2 /\ calls.stop = 0

\* The mode that fits the callback of handler h: awaited if it is a coroutine function,
\* run in the executor if not.
FittingMode(h) == IF IsCoroutineFunction(h) THEN "await" ELSE "executor"

\* Every call of a scoped error handler was made in the mode that fits its callback.
CalledInFittingMode ==
    \A w \in 1..Len(worker) : \A j \in 1..Len(worker[w].calls) :
        worker[w].calls[j].role = "scoped" =>
            worker[w].calls[j].mode = FittingMode(worker[w].calls[j].h)

\* C21 as the specification states it: the list of scoped error handlers and the list
\* of their flags are of the same length, the flag at each position is the one recorded
\* for the handler at that position, and every scoped error handler is called in the
\* mode that fits its callback.
C21_FlagsAligned ==
    /\ Len(error_handler_coros) = Len(error_handlers)
    /\ \A i \in 1..Len(error_handlers) :
          i <= Len(error_handler_coros) => error_handler_coros[i] = CoroFlag(error_handlers[i])
    /\ CalledInFittingMode

\* Worker w is not in a dispatch: it waits on the queue, runs a parser or has exited.
Outside(w) == worker[w].pc \in {"get", "parse", "exited"}

\* Worker w has its lock, or is queued for it.
WorkerInLock(w, i) == locks_list[i].owner = w \/ w \in Range(locks_list[i].waiters)

\* A worker outside a dispatch does not have its lock and is not queued for it, and no
\* worker ever has or waits for the lock of another.
HoldsOnlyInDispatch ==
    \A w \in 1..Len(worker) :
        /\ Outside(w) \/ worker[w].pc = "lock" => ~WorkerInLock(w, w)
        /\ Dispatching(w) => locks_list[w].owner = w
        /\ \A i \in 1..Len(locks_list) : i # w => ~WorkerInLock(w, i)

\* Every way out of a dispatch leaves the worker at the dequeue step without its lock.
ReleasesOnEveryExit ==
    \A w \in 1..Len(worker) :
        Dispatching(w) /\ ~Dispatching(w)' =>
            worker'[w].pc = "get" /\ ~WorkerInLock(w, w)'

\* A mutation task that has not started or has ended, with or without an exception,
\* has no lock and is queued for none; the step in which it ends releases them all.
TasksReleaseAll ==
    \A t \in 1..Len(fn_tasks) :
        ~(fn_tasks[t].st = "wait") => \A i \in 1..Len(locks_list) : ~InLock(t, i)

\* C22 as the specification states it: whenever a worker is waiting on the queue,
\* running a parser or has exited, its lock is free.
C22_LockFreeOutsideDispatch ==
    \A w \in 1..Len(worker) : Outside(w) => IsFree(locks_list[w])

\* C22, amended: a worker has its lock only during the dispatch of one event: every way
\* out of a dispatch releases it before the worker dequeues again, so a worker that
\* waits on the queue, runs a parser or has exited does not hold its lock (a mutation
\* task may); and a mutation task that has ended, with or without an exception, holds
\* no lock.
C22_HeldOnlyInDispatch ==
    /\ [](HoldsOnlyInDispatch /\ TasksReleaseAll)
    /\ [][ReleasesOnEveryExit]_vars

\* C22 witness: the dispatch of worker 1 ended with an exception logged by the outer
\* guard and the worker is back at the dequeue step; its lock is now held by a mutation
\* task that waits for the lock of worker 2, which is in a dispatch; the mutation task
\* before it has ended.
C22_Witness ==
    /\ Len(worker) = 2 /\ Len(fn_tasks) = 2
    /\ worker[1].pc = "get" /\ worker[1].calls # <<>>
    /\ worker[1].calls[Len(worker[1].calls)].role = "log"
    /\ worker[1].calls[1].role = "handler"
    /\ locks_list[1].owner = -2
    /\ fn_tasks[2].st = "wait" /\ fn_tasks[2].at = 2
    /\ fn_tasks[1].st = "finished"
    /\ Dispatching(2) /\ locks_list[2].owner = 2

\* The ErrorHandler h is in the error-routing state: in the scoped list or the global
\* slot.
Routable(h) == h \in Range(error_handlers) \/ h = global_error_handler

\* The ErrorHandlers.
ErrorHandlers == {h \in Handlers : HandlerClass(h) = "ErrorHandler"}

\* An error handler is called in this step although it is a member of no group.
CallsRemoved(w) ==
    \E j \in 1..Len(NewCalls(w)) :
        /\ NewCalls(w)[j].role \in {"scoped", "global"}
        /\ NewCalls(w)[j].h \notin Registered

\* An ErrorHandler that is a member of no group is never invoked.
NeverCallsRemoved ==
    [][\A w \in 1..Len(worker) :
          Dispatching(w) /\ Len(worker'[w].calls) > Len(worker[w].calls) =>
              ~CallsRemoved(w)]_vars

\* C23 as the specification states it: an ErrorHandler is in the error-routing state
\* exactly when it is a member of a group, and an ErrorHandler that is a member of no
\* group (any more) is not invoked for the exception of a handler.
C23_RoutingMatchesGroups ==
    /\ [](\A h \in ErrorHandlers : Routable(h) <=> h \in Registered)
    /\ NeverCallsRemoved

====
